---- MODULE Spec2Model ----
(***************************************************************************)
(* A model of src/src/data_provider.rs: DataProvider, a buffered reader    *)
(* over a boxed std::io::Read, with read_bytes and read_string built on     *)
(* get_next_byte / load_data, and the DataError type with its PartialEq.    *)
(*                                                                         *)
(* The provider is single-threaded; a read call is a loop around            *)
(* get_next_byte, and the model takes one loop iteration per step (pc is    *)
(* the call the caller is in).  The source (reader) is the environment:     *)
(* each reader.read answers with an error or with a chunk of bytes.         *)
(***************************************************************************)
EXTENDS Integers, Sequences, FiniteSets, TLC

\* ---------------------------------------------------------------- bounds
\* Size of self.buffer.
BufferSize == 512
\* Total number of reader.read requests in a run.
MaxFills == 2
\* Total number of bytes the source delivers in a run.
MaxStream == 3
\* Largest destination slice handed to read_bytes.
MaxLen == 3
\* Total number of bytes get_next_byte hands out in a run.
MaxHanded == 3

\* Byte values of the model: the terminator, an ASCII letter, a two-byte
\* lead (0xDC) and a continuation byte (0xA9).
Bytes == {0, 65, 220, 169}
\* What a caller's destination slice holds before the call.
DestFills == {0, 65}
\* std::io::Error values a source may report.
SourceErrs == {"Interrupted", "Other"}

VARIABLES
    buffer,          \* self.buffer, as the cells 0 .. Len(buffer)-1 written so far
    data_pointer,    \* self.data_pointer
    data_available,  \* self.data_available
    pc,              \* "idle", "read_bytes" or "read_string": the call in progress
    dest,            \* read_bytes: the caller's slice
    idx,             \* read_bytes: the slot the for loop is at
    data,            \* read_string: the Vec of accumulated bytes
    result,          \* what the last finished call returned
    stream,          \* history: every byte the source has delivered, in order
    base,            \* history: number of stream bytes delivered before buffer[0]
    handed,          \* history: <<stream position, byte>> of every Ok of get_next_byte
    fills,           \* history: number of reader.read requests so far
    start,           \* history: snapshot taken when the current/last call began
    resps,           \* history: the source's answers during the call (n = -1: error)
    run,             \* history: the calls since the last failed call
    fails_first,     \* the source: whether its first reader.read will report an error
    cmp              \* operands and outcome of a DataError comparison

vars == <<buffer, data_pointer, data_available, pc, dest, idx, data, result,
          stream, base, handed, fills, start, resps, run, fails_first, cmp>>

provider == <<buffer, data_pointer, data_available>>
history == <<stream, base, handed, fills>>

\* ------------------------------------------------------------- DataError
EndOfStream == [tag |-> "EndOfStream", cause |-> "none"]
Utf8Error == [tag |-> "Utf8Error", cause |-> "none"]
IOError(e) == [tag |-> "IOError", cause |-> e]

IoCauses == {"NotFound", "Interrupted", "Other"}
DataErrors == {EndOfStream, Utf8Error} \cup {IOError(e) : e \in IoCauses}

\* eq as #[derive(PartialEq)] would give it: the wrapped causes compared too.
eq_derived(a, b) == a = b

\* impl PartialEq for DataError
eq(a, b) ==
    CASE a.tag = "IOError" /\ b.tag = "IOError" -> TRUE
      [] a.tag = "EndOfStream" /\ b.tag = "EndOfStream" -> TRUE
      [] a.tag = "Utf8Error" /\ b.tag = "Utf8Error" -> TRUE
      [] OTHER -> FALSE

\* ------------------------------------------------------------ the source
\* An answer of reader.read(&mut self.buffer): Err(e), or Ok(n) with the n
\* bytes it wrote at the front of the buffer.
ErrResp(e) == [ok |-> FALSE, bytes |-> <<>>, err |-> e]
OkResp(bs) == [ok |-> TRUE, bytes |-> bs, err |-> "none"]

RECURSIVE SeqsUpTo(_)
SeqsUpTo(n) ==
    IF n = 0 THEN {<<>>}
    ELSE LET shorter == SeqsUpTo(n - 1)
         IN  shorter \cup {Append(s, b) : s \in {t \in shorter : Len(t) = n - 1}, b \in Bytes}

\* The answers the source may give in the current state.
Responses ==
    IF fills = 0 /\ fails_first
    THEN {ErrResp(e) : e \in SourceErrs}
    ELSE {OkResp(bs) : bs \in SeqsUpTo(MaxStream - Len(stream))}
         \cup (IF fills = 0 THEN {} ELSE {ErrResp(e) : e \in SourceErrs})

\* ----------------------------------------------------------- DataProvider
\* The array [u8; 512] is kept as the sequence of its cells up to the last one
\* ever written; reader.read writes a prefix, so the cells behind it still hold
\* the 0 of [0; 512].  BufAt is self.buffer[i].
BufAt(buf, i) == IF i < Len(buf) THEN buf[i + 1] ELSE 0

\* reader.read's write of bs into the front of the array.
BufWrite(buf, bs) == bs \o SubSeq(buf, Len(bs) + 1, Len(buf))

\* DataProvider::new
new == [buffer |-> <<>>,
        data_pointer |-> 0,
        data_available |-> 0]

\* load_data without its first statement, self.data_pointer = 0.
load_data_keep_pointer(self, resp) ==
    IF resp.ok
    THEN [self |-> [self EXCEPT !.buffer = BufWrite(self.buffer, resp.bytes),
                                !.data_available = Len(resp.bytes)],
          ok |-> TRUE, size |-> Len(resp.bytes), err |-> "none"]
    ELSE [self |-> self, ok |-> FALSE, size |-> 0, err |-> resp.err]

\* load_data taking a non-empty read for a full buffer: data_available is set
\* to the buffer's length instead of size.
load_data_full_buffer(self, resp) ==
    LET s1 == [self EXCEPT !.data_pointer = 0]
    IN  IF resp.ok
        THEN [self |-> [s1 EXCEPT
                  !.buffer = BufWrite(s1.buffer, resp.bytes),
                  !.data_available = IF Len(resp.bytes) > 0 THEN BufferSize ELSE 0],
              ok |-> TRUE, size |-> Len(resp.bytes), err |-> "none"]
        ELSE [self |-> s1, ok |-> FALSE, size |-> 0, err |-> resp.err]

\* fn load_data(&mut self) -> std::io::Result<usize>
load_data(self, resp) ==
    LET s1 == [self EXCEPT !.data_pointer = 0]
    IN  IF resp.ok
        THEN [self |-> [s1 EXCEPT
                  !.buffer = BufWrite(s1.buffer, resp.bytes),
                  !.data_available = Len(resp.bytes)],
              ok |-> TRUE, size |-> Len(resp.bytes), err |-> "none"]
        ELSE [self |-> s1, ok |-> FALSE, size |-> 0, err |-> resp.err]

\* get_next_byte without the data_available == 0 test after a refill.
get_next_byte_no_eos(self, resp) ==
    LET take(s, n) == [self |-> [s EXCEPT !.data_pointer = @ + 1],
                       ok |-> TRUE, value |-> BufAt(s.buffer, s.data_pointer),
                       err |-> EndOfStream, reads |-> n]
    IN  IF self.data_pointer = self.data_available
        THEN LET l == load_data(self, resp)
             IN  IF ~l.ok
                 THEN [self |-> l.self, ok |-> FALSE, value |-> 0,
                       err |-> IOError(l.err), reads |-> 1]
                 ELSE take(l.self, 1)
        ELSE take(self, 0)

\* get_next_byte reporting a failed refill as the end of the stream.
get_next_byte_err_as_eos(self, resp) ==
    LET take(s, n) == [self |-> [s EXCEPT !.data_pointer = @ + 1],
                       ok |-> TRUE, value |-> BufAt(s.buffer, s.data_pointer),
                       err |-> EndOfStream, reads |-> n]
    IN  IF self.data_pointer = self.data_available
        THEN LET l == load_data(self, resp)
             IN  IF ~l.ok \/ l.self.data_available = 0
                 THEN [self |-> l.self, ok |-> FALSE, value |-> 0,
                       err |-> EndOfStream, reads |-> 1]
                 ELSE take(l.self, 1)
        ELSE take(self, 0)

\* get_next_byte without self.data_pointer += 1.
get_next_byte_no_advance(self, resp) ==
    LET take(s, n) == [self |-> s,
                       ok |-> TRUE, value |-> BufAt(s.buffer, s.data_pointer),
                       err |-> EndOfStream, reads |-> n]
    IN  IF self.data_pointer = self.data_available
        THEN LET l == load_data(self, resp)
             IN  IF ~l.ok
                 THEN [self |-> l.self, ok |-> FALSE, value |-> 0,
                       err |-> IOError(l.err), reads |-> 1]
                 ELSE IF l.self.data_available = 0
                 THEN [self |-> l.self, ok |-> FALSE, value |-> 0,
                       err |-> EndOfStream, reads |-> 1]
                 ELSE take(l.self, 1)
        ELSE take(self, 0)

\* get_next_byte with self.data_pointer += 1 moved ahead of the test for
\* data_available == 0: an EndOfStream leaves the cursor at 1.
get_next_byte_advance_before_eos(self, resp) ==
    LET take(s, n) == [self |-> [s EXCEPT !.data_pointer = @ + 1],
                       ok |-> TRUE, value |-> BufAt(s.buffer, s.data_pointer),
                       err |-> EndOfStream, reads |-> n]
    IN  IF self.data_pointer = self.data_available
        THEN LET l == load_data(self, resp)
             IN  IF ~l.ok
                 THEN [self |-> l.self, ok |-> FALSE, value |-> 0,
                       err |-> IOError(l.err), reads |-> 1]
                 ELSE IF l.self.data_available = 0
                 THEN [self |-> [l.self EXCEPT !.data_pointer = @ + 1],
                       ok |-> FALSE, value |-> 0,
                       err |-> EndOfStream, reads |-> 1]
                 ELSE take(l.self, 1)
        ELSE take(self, 0)

\* get_next_byte calling load_data on every call, whatever the cursor.
get_next_byte_always_refill(self, resp) ==
    LET take(s, n) == [self |-> [s EXCEPT !.data_pointer = @ + 1],
                       ok |-> TRUE, value |-> BufAt(s.buffer, s.data_pointer),
                       err |-> EndOfStream, reads |-> n]
        l == load_data(self, resp)
    IN  IF ~l.ok
        THEN [self |-> l.self, ok |-> FALSE, value |-> 0,
              err |-> IOError(l.err), reads |-> 1]
        ELSE IF l.self.data_available = 0
        THEN [self |-> l.self, ok |-> FALSE, value |-> 0,
              err |-> EndOfStream, reads |-> 1]
        ELSE take(l.self, 1)

\* fn get_next_byte(&mut self) -> Result<u8, DataError>
\* reads: the number of reader.read requests the call made.
get_next_byte(self, resp) ==
    LET take(s, n) == [self |-> [s EXCEPT !.data_pointer = @ + 1],
                       ok |-> TRUE, value |-> BufAt(s.buffer, s.data_pointer),
                       err |-> EndOfStream, reads |-> n]
    IN  IF self.data_pointer = self.data_available
        THEN LET l == load_data(self, resp)
             IN  IF ~l.ok
                 THEN [self |-> l.self, ok |-> FALSE, value |-> 0,
                       err |-> IOError(l.err), reads |-> 1]
                 ELSE IF l.self.data_available = 0
                 THEN [self |-> l.self, ok |-> FALSE, value |-> 0,
                       err |-> EndOfStream, reads |-> 1]
                 ELSE take(l.self, 1)
        ELSE take(self, 0)

\* String::from_utf8's check (core::str::from_utf8): s[i..] is well-formed UTF-8.
RECURSIVE Utf8ValidFrom(_, _)
Utf8ValidFrom(s, i) ==
    LET n == Len(s)
        cont(k) == k <= n /\ s[k] >= 128 /\ s[k] <= 191
        in(k, lo, hi) == k <= n /\ s[k] >= lo /\ s[k] <= hi
        b == s[i]
    IN  IF i > n THEN TRUE
        ELSE IF b < 128 THEN Utf8ValidFrom(s, i + 1)
        ELSE IF b >= 194 /\ b <= 223
             THEN cont(i + 1) /\ Utf8ValidFrom(s, i + 2)
        ELSE IF b = 224
             THEN in(i + 1, 160, 191) /\ cont(i + 2) /\ Utf8ValidFrom(s, i + 3)
        ELSE IF (b >= 225 /\ b <= 236) \/ b = 238 \/ b = 239
             THEN cont(i + 1) /\ cont(i + 2) /\ Utf8ValidFrom(s, i + 3)
        ELSE IF b = 237
             THEN in(i + 1, 128, 159) /\ cont(i + 2) /\ Utf8ValidFrom(s, i + 3)
        ELSE IF b = 240
             THEN in(i + 1, 144, 191) /\ cont(i + 2) /\ cont(i + 3)
                  /\ Utf8ValidFrom(s, i + 4)
        ELSE IF b >= 241 /\ b <= 243
             THEN cont(i + 1) /\ cont(i + 2) /\ cont(i + 3) /\ Utf8ValidFrom(s, i + 4)
        ELSE IF b = 244
             THEN in(i + 1, 128, 143) /\ cont(i + 2) /\ cont(i + 3)
                  /\ Utf8ValidFrom(s, i + 4)
        ELSE FALSE

\* What a read call returns.
NoResult == [tag |-> "none", cause |-> "none", str |-> <<>>]
OkUnit == [tag |-> "Ok", cause |-> "none", str |-> <<>>]
OkString(s) == [tag |-> "Ok", cause |-> "none", str |-> s]
Failed(e) == [tag |-> e.tag, cause |-> e.cause, str |-> <<>>]

\* The conversion as String::from_utf8_lossy would do it: never an error.
from_utf8_lossy(bytes) == OkString(bytes)

\* match String::from_utf8(data) { Ok(res) => Ok(res), Err(_) => Err(Utf8Error) }
from_utf8(bytes) ==
    IF Utf8ValidFrom(bytes, 1) THEN OkString(bytes) ELSE Failed(Utf8Error)

\* read_bytes with Err(_) => 0 in place of Err(err) => return Err(err): the
\* slot is zeroed and the loop goes on.
read_bytes_skips_errors(self, d, i, resp) ==
    LET g == get_next_byte(self, resp)
    IN  [self |-> g.self,
         dest |-> [d EXCEPT ![i + 1] = IF g.ok THEN g.value ELSE 0],
         idx |-> i + 1,
         done |-> (i + 1 = Len(d)),
         result |-> IF g.ok THEN OkUnit ELSE Failed(g.err),
         g |-> g]

\* One iteration of read_bytes' for loop, at slot i (0-based) of the slice d.
read_bytes(self, d, i, resp) ==
    LET g == get_next_byte(self, resp)
    IN  IF g.ok
        THEN [self |-> g.self, dest |-> [d EXCEPT ![i + 1] = g.value], idx |-> i + 1,
              done |-> (i + 1 = Len(d)), result |-> OkUnit, g |-> g]
        ELSE [self |-> g.self, dest |-> d, idx |-> i,
              done |-> TRUE, result |-> Failed(g.err), g |-> g]

\* read_string with Ok(b) => data.push(b) ahead of the Ok(0) arm: the
\* terminator is pushed too.
read_string_keeps_terminator(self, acc, resp) ==
    LET g == get_next_byte(self, resp)
    IN  IF g.ok /\ g.value = 0
        THEN [self |-> g.self, data |-> Append(acc, 0), done |-> TRUE,
              result |-> from_utf8(Append(acc, 0)), g |-> g]
        ELSE IF g.ok
        THEN [self |-> g.self, data |-> Append(acc, g.value), done |-> FALSE,
              result |-> NoResult, g |-> g]
        ELSE [self |-> g.self, data |-> acc, done |-> TRUE,
              result |-> Failed(g.err), g |-> g]

\* read_string with Err(_) => break: an error ends the string like a terminator.
read_string_partial_on_error(self, acc, resp) ==
    LET g == get_next_byte(self, resp)
    IN  IF g.ok /\ g.value # 0
        THEN [self |-> g.self, data |-> Append(acc, g.value), done |-> FALSE,
              result |-> NoResult, g |-> g]
        ELSE [self |-> g.self, data |-> acc, done |-> TRUE,
              result |-> from_utf8(acc), g |-> g]

\* read_string giving the terminator back (self.data_pointer -= 1) when the
\* accumulated bytes are not UTF-8.
read_string_unreads_on_utf8_error(self, acc, resp) ==
    LET g == get_next_byte(self, resp)
    IN  IF g.ok /\ g.value = 0
        THEN [self |-> IF from_utf8(acc).tag = "Ok" THEN g.self
                       ELSE [g.self EXCEPT !.data_pointer = @ - 1],
              data |-> acc, done |-> TRUE,
              result |-> from_utf8(acc), g |-> g]
        ELSE IF g.ok
        THEN [self |-> g.self, data |-> Append(acc, g.value), done |-> FALSE,
              result |-> NoResult, g |-> g]
        ELSE [self |-> g.self, data |-> acc, done |-> TRUE,
              result |-> Failed(g.err), g |-> g]

\* read_string with Err(DataError::EndOfStream) => continue: the loop asks
\* again when the source reports no bytes.
read_string_retries_at_end_of_stream(self, acc, resp) ==
    LET g == get_next_byte(self, resp)
    IN  IF g.ok /\ g.value = 0
        THEN [self |-> g.self, data |-> acc, done |-> TRUE,
              result |-> from_utf8(acc), g |-> g]
        ELSE IF g.ok
        THEN [self |-> g.self, data |-> Append(acc, g.value), done |-> FALSE,
              result |-> NoResult, g |-> g]
        ELSE IF g.err = EndOfStream
        THEN [self |-> g.self, data |-> acc, done |-> FALSE,
              result |-> NoResult, g |-> g]
        ELSE [self |-> g.self, data |-> acc, done |-> TRUE,
              result |-> Failed(g.err), g |-> g]

\* One iteration of read_string's loop, with the Vec holding acc.
read_string(self, acc, resp) ==
    LET g == get_next_byte(self, resp)
    IN  IF g.ok /\ g.value = 0
        THEN [self |-> g.self, data |-> acc, done |-> TRUE,
              result |-> from_utf8(acc), g |-> g]
        ELSE IF g.ok
        THEN [self |-> g.self, data |-> Append(acc, g.value), done |-> FALSE,
              result |-> NoResult, g |-> g]
        ELSE [self |-> g.self, data |-> acc, done |-> TRUE,
              result |-> Failed(g.err), g |-> g]

\* ---------------------------------------------------------------- state
Self == [buffer |-> buffer, data_pointer |-> data_pointer,
         data_available |-> data_available]

\* What a call finds when it begins: the operation, the slice's length and what
\* its slots hold, the result of the call before it, and the state so far.
Snapshot(op, n, f) ==
    [op |-> op, n |-> n, fill |-> f, prev |-> result.tag,
     fills |-> fills, handed |-> Len(handed),
     stream |-> Len(stream), base |-> base,
     data_pointer |-> data_pointer, data_available |-> data_available]

\* The stream position (1-based) of the byte the next get_next_byte would hand
\* out: the unread buffer byte at the cursor, or else the source's next byte.
ReaderPos ==
    IF data_pointer < data_available THEN base + data_pointer + 1 ELSE Len(stream) + 1

\* The run of calls since the last failed call: the stream position its first
\* call began at, the bytes its calls returned (returned), the same with the
\* terminator each read_string took (consumed), the number of its calls that
\* took a byte, and whether no call has failed yet.
NewRun == [pos |-> 1, returned |-> <<>>, consumed |-> <<>>, calls |-> 0, fresh |-> TRUE]
RunAtCall ==
    IF result.tag = "none" THEN run
    ELSE IF result.tag = "Ok"
    THEN (IF run.consumed = <<>> THEN [run EXCEPT !.pos = ReaderPos] ELSE run)
    ELSE [pos |-> ReaderPos, returned |-> <<>>, consumed |-> <<>>, calls |-> 0,
          fresh |-> FALSE]
RunAtReturn(r, bytes, terminator) ==
    IF r.tag = "Ok"
    THEN [run EXCEPT !.returned = @ \o bytes,
                     !.consumed = @ \o bytes \o terminator,
                     !.calls = @ + 1]
    ELSE run

Cmp(a, b, c, done) ==
    [a |-> a, b |-> b, c |-> c, done |-> done,
     aa |-> done /\ eq(a, a), ab |-> done /\ eq(a, b), ba |-> done /\ eq(b, a),
     bc |-> done /\ eq(b, c), ac |-> done /\ eq(a, c)]
NoCmp == Cmp(EndOfStream, EndOfStream, EndOfStream, FALSE)

InitProvider ==
    /\ buffer = new.buffer
    /\ data_pointer = new.data_pointer
    /\ data_available = new.data_available
    /\ pc = "idle"
    /\ dest = <<>>
    /\ idx = 0
    /\ data = <<>>
    /\ result = NoResult
    /\ stream = <<>>
    /\ base = 0
    /\ handed = <<>>
    /\ fills = 0
    /\ start = Snapshot("none", 0, 0)
    /\ resps = <<>>
    /\ run = NewRun

Init ==
    /\ InitProvider
    /\ fails_first \in BOOLEAN
    /\ cmp = NoCmp

\* The environment's side of one get_next_byte call g answered with resp:
\* what the source delivered and what the caller was handed.
Observe(resp, g) ==
    LET filled == g.reads = 1 /\ resp.ok
        base1 == IF filled THEN Len(stream) ELSE base
    IN  /\ fills' = fills + g.reads
        /\ stream' = IF filled THEN stream \o resp.bytes ELSE stream
        /\ base' = base1
        /\ resps' = IF g.reads = 1
                    THEN Append(resps, [n |-> IF resp.ok THEN Len(resp.bytes) ELSE -1,
                                        err |-> resp.err])
                    ELSE resps
        /\ handed' = IF g.ok
                     THEN Append(handed, <<base1 + g.self.data_pointer, g.value>>)
                     ELSE handed

\* The source is asked only when get_next_byte asks it; the run stays within
\* MaxFills requests and MaxHanded bytes.
Asked(resp, g) ==
    /\ fills + g.reads <= MaxFills
    /\ g.ok => Len(handed) < MaxHanded
    /\ g.reads = 0 => resp = ErrResp("Other")

\* read_bytes testing for data before its loop: with nothing unread in the
\* buffer an empty slice gets Err(EndOfStream).
CallReadBytes_checks_data ==
    /\ pc = "idle"
    /\ \E n \in 0..MaxLen, f \in DestFills :
          /\ dest' = [i \in 1..n |-> f]
          /\ start' = Snapshot("read_bytes", n, f)
          /\ pc' = IF n = 0 THEN "idle" ELSE "read_bytes"
          /\ result' = IF n > 0 THEN NoResult
                       ELSE IF data_pointer = data_available THEN Failed(EndOfStream)
                       ELSE OkUnit
    /\ idx' = 0
    /\ data' = <<>>
    /\ resps' = <<>>
    /\ run' = RunAtCall
    /\ UNCHANGED <<provider, history, fails_first, cmp>>

\* provider.read_bytes(&mut buf) is called with a slice of n bytes.
CallReadBytes ==
    /\ pc = "idle"
    /\ \E n \in 0..MaxLen, f \in DestFills :
          /\ dest' = [i \in 1..n |-> f]
          /\ start' = Snapshot("read_bytes", n, f)
          /\ pc' = IF n = 0 THEN "idle" ELSE "read_bytes"
          /\ result' = IF n = 0 THEN OkUnit ELSE NoResult
    /\ idx' = 0
    /\ data' = <<>>
    /\ resps' = <<>>
    /\ run' = RunAtCall
    /\ UNCHANGED <<provider, history, fails_first, cmp>>

\* The for loop of read_bytes takes its next slot.
ReadBytesStep ==
    /\ pc = "read_bytes"
    /\ \E resp \in Responses :
          LET r == read_bytes(Self, dest, idx, resp)
          IN  /\ Asked(resp, r.g)
              /\ Observe(resp, r.g)
              /\ buffer' = r.self.buffer
              /\ data_pointer' = r.self.data_pointer
              /\ data_available' = r.self.data_available
              /\ dest' = r.dest
              /\ idx' = r.idx
              /\ pc' = IF r.done THEN "idle" ELSE "read_bytes"
              /\ result' = IF r.done THEN r.result ELSE NoResult
              /\ run' = IF r.done THEN RunAtReturn(r.result, r.dest, <<>>) ELSE run
    /\ UNCHANGED <<data, start, fails_first, cmp>>

\* provider.read_string() is called.
CallReadString ==
    /\ pc = "idle"
    /\ pc' = "read_string"
    /\ start' = Snapshot("read_string", 0, 0)
    /\ result' = NoResult
    /\ dest' = <<>>
    /\ idx' = 0
    /\ data' = <<>>
    /\ resps' = <<>>
    /\ run' = RunAtCall
    /\ UNCHANGED <<provider, history, fails_first, cmp>>

\* The loop of read_string takes its next byte.
ReadStringStep ==
    /\ pc = "read_string"
    /\ \E resp \in Responses :
          LET r == read_string(Self, data, resp)
          IN  /\ Asked(resp, r.g)
              /\ Observe(resp, r.g)
              /\ buffer' = r.self.buffer
              /\ data_pointer' = r.self.data_pointer
              /\ data_available' = r.self.data_available
              /\ data' = r.data
              /\ pc' = IF r.done THEN "idle" ELSE "read_string"
              /\ result' = r.result
              /\ run' = IF r.done THEN RunAtReturn(r.result, r.result.str, <<0>>) ELSE run
    /\ UNCHANGED <<dest, idx, start, fails_first, cmp>>

Next ==
    \/ CallReadBytes
    \/ ReadBytesStep
    \/ CallReadString
    \/ ReadStringStep

Spec == Init /\ [][Next]_vars

\* Every fill request returns: reader.read does not block forever, so a loop
\* that can take its next iteration takes it.
FairSpec == Spec /\ WF_vars(ReadBytesStep) /\ WF_vars(ReadStringStep)

\* ------------------------------------------------- comparing DataErrors
\* Three DataError values are drawn; Compare applies eq to them.
EqInit ==
    /\ InitProvider
    /\ fails_first = FALSE
    /\ \E a \in DataErrors, b \in DataErrors, c \in DataErrors : cmp = Cmp(a, b, c, FALSE)

Compare ==
    /\ ~cmp.done
    /\ cmp' = Cmp(cmp.a, cmp.b, cmp.c, TRUE)
    /\ UNCHANGED <<provider, history, pc, dest, idx, data, result, start, resps, run,
                   fails_first>>

EqNext == Compare

EqSpec == EqInit /\ [][EqNext]_vars

\* ---------------------------------------------------------------- claims
\* The last call was op and has returned.
Returned(op) == pc = "idle" /\ start.op = op

\* The call began on a DataProvider as new leaves it: the source never asked.
FreshAtCall ==
    start.fills = 0 /\ start.data_pointer = 0 /\ start.data_available = 0

\* The stream position at which the call began.
StartPos ==
    IF start.data_pointer < start.data_available
    THEN start.base + start.data_pointer + 1
    ELSE start.stream + 1

\* Number of bytes get_next_byte has handed out during the call.
Taken == Len(handed) - start.handed

LastResp == resps[Len(resps)]

\* C1: read_bytes of a slice of length L >= 1 on a fresh DataProvider, with a
\* source that answers every request with a non-empty chunk, returns Ok with
\* the slice equal to the first L bytes the source delivered, in order, each of
\* the L bytes taken once.
C1_ReadBytesYieldsSourceInOrder ==
    (/\ Returned("read_bytes") /\ start.n >= 1 /\ FreshAtCall
     /\ \A i \in 1..Len(resps) : resps[i].n > 0)
    => /\ result = OkUnit
       /\ Len(stream) >= start.n
       /\ dest = SubSeq(stream, 1, start.n)
       /\ Len(handed) = start.n
       /\ \A i \in 1..start.n : handed[i] = <<i, stream[i]>>

C1_Witness ==
    /\ Returned("read_bytes") /\ FreshAtCall /\ result = OkUnit
    /\ start.n >= 2 /\ Len(resps) >= 2
    /\ dest[1] # dest[2]

\* C2: no byte the source delivered is handed out by get_next_byte twice,
\* whatever calls came before, failed ones included.
C2_NoByteHandedTwice ==
    \A i \in 1..Len(handed) : \A j \in 1..Len(handed) :
        i # j => handed[i][1] # handed[j][1]

\* C3: read_bytes of a slice of length n on a fresh DataProvider, with a source
\* that delivers m < n bytes in non-empty chunks and then answers with zero
\* bytes, returns Err(EndOfStream) with the m bytes in the first m slots.
C3_ShortSourceEndsStream ==
    (/\ Returned("read_bytes") /\ FreshAtCall
     /\ Len(resps) >= 1 /\ LastResp.n = 0
     /\ \A i \in 1..(Len(resps) - 1) : resps[i].n > 0
     /\ start.n > Len(stream))
    => /\ result = Failed(EndOfStream)
       /\ Len(dest) = start.n
       /\ \A i \in 1..Len(stream) : dest[i] = stream[i]

C3_Witness ==
    /\ Returned("read_bytes") /\ FreshAtCall /\ result = Failed(EndOfStream)
    /\ Len(stream) >= 1 /\ start.n > Len(stream)
    /\ dest[1] = stream[1] /\ dest[1] # 0

\* C4 as stated: with a source whose first answer is an error, every read call
\* on a fresh DataProvider returns IOError, read_bytes of any length included.
C4_AnyReadFailsWithIOError ==
    (/\ pc = "idle" /\ start.op \in {"read_bytes", "read_string"}
     /\ FreshAtCall /\ fails_first)
    => result.tag = "IOError"

\* C4, amended: with a source whose first answer is an error, read_string and
\* read_bytes of a slice of length >= 1 on a fresh DataProvider return IOError
\* with the source's error.
C4_NonEmptyReadFailsWithIOError ==
    (/\ pc = "idle" /\ start.op \in {"read_bytes", "read_string"}
     /\ start.op = "read_bytes" => start.n >= 1
     /\ FreshAtCall /\ fails_first)
    => /\ Len(resps) = 1
       /\ result = Failed(IOError(resps[1].err))

C4_Witness ==
    /\ Returned("read_string") /\ FreshAtCall /\ fails_first
    /\ result.tag = "IOError"

\* C5: a read_string that returns Ok has taken the bytes from the reader's
\* position at the call up to and including the first zero byte there, returns
\* those before the zero byte, and leaves the reader just behind the zero byte.
C5_StringIsBytesBeforeTerminator ==
    (Returned("read_string") /\ result.tag = "Ok")
    => /\ Taken >= 1
       /\ Len(stream) >= StartPos + Taken - 1
       /\ \A i \in 1..Taken :
              handed[start.handed + i] = <<StartPos + i - 1, stream[StartPos + i - 1]>>
       /\ stream[StartPos + Taken - 1] = 0
       /\ \A i \in 1..(Taken - 1) : stream[StartPos + i - 1] # 0
       /\ result.str = SubSeq(stream, StartPos, StartPos + Taken - 2)
       /\ ReaderPos = StartPos + Taken

C5_Witness ==
    /\ Returned("read_string") /\ result.tag = "Ok"
    /\ Len(result.str) >= 1
    /\ StartPos > 1

\* C6: a read_string whose get_next_byte fails returns that very error,
\* EndOfStream for a source that answered with zero bytes and IOError with the
\* source's cause for one that answered with an error, and a read_string that
\* returns Ok has ended on a zero byte.
C6_StringFailsWithByteError ==
    /\ (Returned("read_string") /\ Len(resps) >= 1 /\ LastResp.n <= 0)
       => result = Failed(IF LastResp.n = 0 THEN EndOfStream ELSE IOError(LastResp.err))
    /\ (Returned("read_string") /\ result.tag = "Ok")
       => (Taken >= 1 /\ handed[Len(handed)][2] = 0)

C6_Witness ==
    /\ Returned("read_string") /\ result.tag = "EndOfStream"
    /\ Len(data) >= 1

\* C7: a read_string that reached its zero terminator returns Err(Utf8Error)
\* when the bytes before it are not valid UTF-8, and Ok with exactly those
\* bytes when they are.
C7_InvalidUtf8IsAnError ==
    (Returned("read_string") /\ Taken >= 1 /\ handed[Len(handed)][2] = 0)
    => LET acc == [i \in 1..(Taken - 1) |-> handed[start.handed + i][2]]
       IN  /\ acc = <<65, 220>> => result = Failed(Utf8Error)
           /\ acc = <<220, 169>> => result = OkString(acc)
           /\ IF Utf8ValidFrom(acc, 1)
              THEN result = OkString(acc)
              ELSE result = Failed(Utf8Error)

C7_Witness ==
    /\ Returned("read_string") /\ result = Failed(Utf8Error)
    /\ data = <<65, 220>>

\* C8 as stated: while every call so far has succeeded, the bytes the calls
\* returned, concatenated in call order, are a prefix of the stream.
C8_ReturnedIsStreamPrefix ==
    (pc = "idle" /\ result.tag = "Ok" /\ run.fresh)
    => /\ Len(run.returned) <= Len(stream)
       /\ run.returned = SubSeq(stream, 1, Len(run.returned))

\* C8, amended: across consecutive successful calls, the bytes the calls took
\* (the bytes each returned and, for read_string, its zero terminator),
\* concatenated in call order, are the stretch of the stream that begins where
\* the first of the calls began: the start of the stream when no call has
\* failed before.
C8_ConsumedIsStreamStretch ==
    (pc = "idle" /\ result.tag = "Ok")
    => /\ Len(stream) >= run.pos + Len(run.consumed) - 1
       /\ run.consumed = SubSeq(stream, run.pos, run.pos + Len(run.consumed) - 1)
       /\ run.fresh => run.pos = 1

C8_Witness ==
    /\ pc = "idle" /\ result.tag = "Ok"
    /\ run.calls >= 2 /\ run.returned # run.consumed
    /\ Len(run.consumed) >= 3

\* C9: 0 <= data_pointer <= data_available <= 512 in every state.
C9_CursorWithinFill ==
    /\ 0 <= data_pointer
    /\ data_pointer <= data_available
    /\ data_available <= BufferSize

C9_Witness ==
    /\ fills >= 2
    /\ data_available >= 2
    /\ data_pointer = data_available

\* C10: eq compares the variant tags only, and is reflexive, symmetric and
\* transitive.
C10_EqComparesTags ==
    cmp.done
    => /\ cmp.ab = (cmp.a.tag = cmp.b.tag)
       /\ cmp.aa
       /\ cmp.ab = cmp.ba
       /\ (cmp.ab /\ cmp.bc) => cmp.ac

C10_Witness ==
    /\ cmp.done /\ cmp.ab
    /\ cmp.a.tag = "IOError" /\ cmp.b.tag = "IOError"
    /\ cmp.a.cause # cmp.b.cause

\* C11: the source is asked only when data_pointer = data_available, and once
\* per get_next_byte; a request leaves the cursor at 0 (at 1 once the byte at
\* 0 has been handed out); and a byte that is unread before a step is after
\* the step either the byte just handed out or still unread, in its cell.
C11_RefillOnlyWhenConsumed ==
    [][/\ fills' # fills
          => /\ data_pointer = data_available
             /\ fills' = fills + 1
             /\ data_pointer' = (IF Len(handed') > Len(handed) THEN 1 ELSE 0)
       /\ \A i \in data_pointer..(data_available - 1) :
             \/ /\ i = data_pointer
                /\ Len(handed') = Len(handed) + 1
                /\ handed'[Len(handed')] = <<base + i + 1, BufAt(buffer, i)>>
             \/ /\ data_pointer' <= i /\ i < data_available'
                /\ BufAt(buffer', i) = BufAt(buffer, i)
                /\ base' = base]_vars

C11_Witness ==
    /\ fills >= 2 /\ base >= 1
    /\ data_available >= 1 /\ data_pointer = 1
    /\ Len(handed) = base + 1

\* C12: a refill in which the source reports an error is returned as IOError,
\* leaves data_available as it was, and leaves no buffer byte unread, that is
\* no index in [data_pointer, data_available).
C12_FailedRefillClaimsNothing ==
    [][(fills' # fills /\ resps'[Len(resps')].n = -1)
       => /\ result'.tag = "IOError"
          /\ data_available' = data_available
          /\ data_pointer' = data_available']_vars

\* C13: a read_bytes that returned an error returned the error of its last
\* get_next_byte, which was its only failing one and met the source's only
\* failing answer of the call; the slots before the failing one hold the bytes
\* handed out, the others what they held before the call.
C13_ReadBytesStopsAtError ==
    (Returned("read_bytes") /\ result.tag # "Ok")
    => /\ Len(resps) >= 1 /\ LastResp.n <= 0
       /\ \A i \in 1..(Len(resps) - 1) : resps[i].n > 0
       /\ result = Failed(IF LastResp.n = 0 THEN EndOfStream ELSE IOError(LastResp.err))
       /\ idx = Taken /\ idx < start.n
       /\ Len(dest) = start.n
       /\ \A j \in 1..idx : dest[j] = handed[start.handed + j][2]
       /\ \A j \in (idx + 1)..start.n : dest[j] = start.fill

C13_Witness ==
    /\ Returned("read_bytes") /\ result.tag = "IOError"
    /\ idx >= 1 /\ start.n >= idx + 1
    /\ start.fill = 65 /\ dest[1] = 220

\* C14: a step, which is one get_next_byte, asks the source at most once; it
\* asks only after every byte of the last fill has been handed out; an answer
\* of k > 0 bytes becomes the buffer's contents with data_available = k and
\* its first byte is handed out; an answer of zero bytes ends the call with
\* EndOfStream in the same step.
C14_OneFillPerByte ==
    [][/\ fills' <= fills + 1
       /\ fills' # fills
          => LET r == resps'[Len(resps')]
             IN  /\ \A p \in (base + 1)..(base + data_available) :
                        \E i \in 1..Len(handed) : handed[i][1] = p
                 /\ r.n > 0
                    => /\ data_available' = r.n
                       /\ Len(stream') = Len(stream) + r.n
                       /\ \A i \in 0..(r.n - 1) :
                              BufAt(buffer', i) = stream'[Len(stream) + i + 1]
                       /\ handed' = Append(handed, <<Len(stream) + 1, stream'[Len(stream) + 1]>>)
                 /\ r.n = 0
                    => /\ pc' = "idle"
                       /\ result' = Failed(EndOfStream)
                       /\ handed' = handed]_vars

C14_Witness ==
    /\ fills = 2 /\ base = 2
    /\ data_available = 1
    /\ Len(handed) = 3

\* C15: a read_string that returned Utf8Error has taken the bytes from the
\* reader's position up to and including the zero terminator and leaves the
\* reader just behind the terminator; the call after it begins with the byte
\* that follows the terminator.
C15_Utf8ErrorConsumesString ==
    /\ (Returned("read_string") /\ result = Failed(Utf8Error))
       => /\ Taken >= 2
          /\ Len(stream) >= StartPos + Taken - 1
          /\ \A i \in 1..Taken :
                 handed[start.handed + i] = <<StartPos + i - 1, stream[StartPos + i - 1]>>
          /\ stream[StartPos + Taken - 1] = 0
          /\ ReaderPos = StartPos + Taken
    /\ (start.prev = "Utf8Error" /\ Taken >= 1)
       => /\ start.handed >= 2
          /\ handed[start.handed][2] = 0
          /\ Len(stream) >= handed[start.handed][1] + 1
          /\ handed[start.handed + 1]
                = <<handed[start.handed][1] + 1, stream[handed[start.handed][1] + 1]>>

C15_Witness ==
    /\ Returned("read_bytes") /\ start.prev = "Utf8Error"
    /\ result = OkUnit /\ start.n = 1
    /\ stream = <<220, 0, 65>> /\ dest = <<65>>

\* C16: read_bytes with an empty slice, called in any state, returns Ok(()),
\* asks the source for nothing, hands out no byte and leaves data_pointer,
\* data_available and the buffer as they were.
C16_EmptyReadIsNoOp ==
    [][(pc = "idle" /\ start'.op = "read_bytes" /\ start'.n = 0)
       => /\ pc' = "idle"
          /\ result' = OkUnit
          /\ fills' = fills /\ resps' = <<>>
          /\ stream' = stream /\ handed' = handed
          /\ buffer' = buffer
          /\ data_pointer' = data_pointer
          /\ data_available' = data_available]_vars

C16_Witness ==
    /\ Returned("read_bytes") /\ start.n = 0
    /\ start.prev = "IOError"
    /\ result = OkUnit
    /\ data_pointer < data_available

\* C17: a call that returns EndOfStream leaves data_pointer = data_available
\* = 0; in that state a get_next_byte asks the source anew, hands out the first
\* byte of an answer of k > 0 bytes and returns EndOfStream again on an answer
\* of zero bytes; and a read_bytes called after an EndOfStream whose slice the
\* source's next answer covers returns Ok with those bytes.
C17_EndOfStreamNotLatched ==
    [][/\ (pc' = "idle" /\ result'.tag = "EndOfStream")
          => (data_pointer' = 0 /\ data_available' = 0)
       /\ (pc # "idle" /\ fills >= 1 /\ data_pointer = 0 /\ data_available = 0)
          => /\ fills' = fills + 1
             /\ LET r == resps'[Len(resps')]
                IN  /\ r.n > 0
                       => handed' = Append(handed, <<Len(stream) + 1, stream'[Len(stream) + 1]>>)
                    /\ r.n = 0
                       => (pc' = "idle" /\ result' = Failed(EndOfStream))
       /\ (/\ pc' = "idle" /\ start'.op = "read_bytes" /\ start'.prev = "EndOfStream"
           /\ start'.n >= 1 /\ Len(resps') >= 1 /\ resps'[1].n >= start'.n)
          => /\ result' = OkUnit
             /\ dest' = SubSeq(stream', start'.stream + 1, start'.stream + start'.n)]_vars

C17_Witness ==
    /\ Returned("read_bytes") /\ start.prev = "EndOfStream"
    /\ start.n >= 1 /\ result = OkUnit
    /\ dest[1] = 220

\* The run has room for k more fill requests and k more bytes.
Room(k) == fills + k <= MaxFills /\ Len(handed) + k <= MaxHanded

\* One iteration of read_bytes: a byte into the next slot, returning once the
\* slice is full, or an error returned at once; never more than one fill
\* request, and no more requests than iterations.
C18_ReadBytesIteration ==
    pc = "read_bytes"
    => /\ idx < start.n
       /\ Len(resps) <= idx
       /\ Len(resps') <= Len(resps) + 1
       /\ \/ /\ idx' = idx + 1
             /\ pc' = (IF idx' = start.n THEN "idle" ELSE "read_bytes")
          \/ /\ idx' = idx
             /\ pc' = "idle"
             /\ result'.tag \in {"EndOfStream", "IOError"}
       /\ pc' = "idle"
          => /\ idx' + (IF result'.tag = "Ok" THEN 0 ELSE 1) <= start.n
             /\ Len(resps') <= start.n

\* One iteration of read_string: it returns in the iteration that takes a zero
\* byte or whose fill request is answered with zero bytes or a failure, and
\* any other iteration takes one non-zero byte of the stream.
C18_ReadStringIteration ==
    pc = "read_string"
    => LET asked == Len(resps') > Len(resps)
           took == Len(handed') > Len(handed)
           b == handed'[Len(handed')][2]
           stop == (took /\ b = 0) \/ (asked /\ resps'[Len(resps')].n <= 0)
       IN  /\ stop => pc' = "idle"
           /\ ~stop => (took /\ b # 0 /\ data' = Append(data, b))

\* C18: read_bytes on a slice of n bytes makes at most n get_next_byte calls
\* and at most n fill requests and returns; read_string returns as soon as it
\* takes a zero byte or a fill request is answered with zero bytes or a
\* failure, so with every fill request returning each call returns unless the
\* source keeps delivering non-zero bytes.
C18_ReadsTerminate ==
    /\ [][C18_ReadBytesIteration /\ C18_ReadStringIteration]_vars
    /\ (pc = "read_bytes" /\ Room(start.n - idx)) ~> (pc = "idle")
    /\ (pc = "read_string") ~> (pc = "idle" \/ ~Room(1))

C18_Witness ==
    /\ Returned("read_string")
    /\ result = Failed(EndOfStream)
    /\ Len(resps) = 2 /\ resps[1].n >= 1
    /\ Len(handed) - start.handed >= 1

====
